---- MODULE Spec2Model ----
(***************************************************************************)
(* A model of i3workon: the workspace-number allocator of internal/i3, the *)
(* pattern matcher and the module resolution of internal/search,           *)
(* internal/load and internal/mod.                                         *)
(*                                                                         *)
(* Go strings are modelled as sequences of one-character strings, so that  *)
(* formatting, parsing, quoting and path cleaning are computed character   *)
(* by character, the way the library routines compute them.                *)
(***************************************************************************)
EXTENDS Integers, Sequences, FiniteSets, TLC

VARIABLES
    wsList,     \* i3: the names of the workspaces the window manager holds, in reply order
    i3res,      \* i3: the last call into package i3 and what it returned
    mres,       \* matcher: the last pattern compiled and the names it matched
    gopath,     \* the environment: whether GOPATH is set, and its entries
    fs,         \* the file system: what each module directory holds as go.mod
    res,        \* resolution: the call in progress and what it returned
    run         \* the launcher: where a run of main stands and what it has done

i3vars == <<wsList, i3res>>

rvars == <<gopath, fs, res>>

vars == <<wsList, i3res, mres, gopath, fs, res, run>>

(***************************************************************************)
(* Strings.                                                                *)
(***************************************************************************)

\* All the strings over alphabet cs of length at most n.
RECURSIVE StringsUpTo(_, _)
StringsUpTo(cs, n) ==
    IF n = 0 THEN {<<>>}
    ELSE LET shorter == StringsUpTo(cs, n - 1)
         IN  shorter \cup {Append(s, c) : s \in {t \in shorter : Len(t) = n - 1}, c \in cs}

\* strings.HasPrefix / strings.HasSuffix
HasPrefix(s, p) == Len(s) >= Len(p) /\ SubSeq(s, 1, Len(p)) = p
HasSuffix(s, p) == Len(s) >= Len(p) /\ SubSeq(s, Len(s) - Len(p) + 1, Len(s)) = p

\* strings.IndexByte, 1-based; 0 stands for Go's -1.
IndexByte(s, c) ==
    IF \E i \in 1..Len(s) : s[i] = c
    THEN CHOOSE i \in 1..Len(s) : s[i] = c /\ \A j \in 1..(i - 1) : s[j] # c
    ELSE 0

\* strings.LastIndexByte, 1-based; 0 stands for Go's -1.
LastIndexByte(s, c) ==
    IF \E i \in 1..Len(s) : s[i] = c
    THEN CHOOSE i \in 1..Len(s) : s[i] = c /\ \A j \in (i + 1)..Len(s) : s[j] # c
    ELSE 0

(***************************************************************************)
(* Package i3: workspace numbers.                                          *)
(***************************************************************************)

Digits == <<"0", "1", "2", "3", "4", "5", "6", "7", "8", "9">>

IsDigit(c) == \E d \in 1..10 : Digits[d] = c

DigitVal(c) == (CHOOSE d \in 1..10 : Digits[d] = c) - 1

\* The value of a string of decimal digits.
RECURSIVE DigitsVal(_)
DigitsVal(s) ==
    IF s = <<>> THEN 0
    ELSE 10 * DigitsVal(SubSeq(s, 1, Len(s) - 1)) + DigitVal(s[Len(s)])

\* strconv.Atoi: an optional sign, then one or more decimal digits.  The
\* range error of strings that do not fit an int needs 19 digits or more and
\* is beyond the names modelled here.
Atoi(s) ==
    LET signed == s # <<>> /\ s[1] \in {"+", "-"}
        body   == IF signed THEN Tail(s) ELSE s
    IN  IF body = <<>> \/ \E i \in 1..Len(body) : ~IsDigit(body[i])
        THEN [err |-> TRUE, n |-> 0]
        ELSE [err |-> FALSE,
              n   |-> IF signed /\ s[1] = "-" THEN 0 - DigitsVal(body) ELSE DigitsVal(body)]

\* fmt's %d of a non-negative int.
RECURSIVE Itoa(_)
Itoa(n) ==
    IF n < 10 THEN <<Digits[n + 1]>>
    ELSE Append(Itoa(n \div 10), Digits[(n % 10) + 1])

\* parse parses the string and returns a positive number, or 0 in case of errors.
parse(s) ==
    LET r == Atoi(s)
    IN  IF r.err \/ r.n < 0 THEN 0 ELSE r.n

\* Number cutting the name at its last colon instead of its first.
NumberLastColon(name) ==
    IF parse(name) > 0 THEN parse(name)
    ELSE LET i == LastIndexByte(name, ":")
         IN  IF i = 0 THEN 0 ELSE parse(SubSeq(name, 1, i - 1))

\* workspace.Number: the effective workspace number of a workspace name.
Number(name) ==
    IF parse(name) > 0 THEN parse(name)
    ELSE LET i == IndexByte(name, ":")
         IN  IF i = 0 THEN 0 ELSE parse(SubSeq(name, 1, i - 1))

\* The target string of the command Workspace sends: Sprintf("%d:%s", num, name).
WorkspaceTarget(num, name) == Itoa(num) \o <<":">> \o name

\* The loop counting the workspaces without a number too.
RECURSIVE NextLoopCountAll(_, _)
NextLoopCountAll(list, n) ==
    IF list = <<>> THEN n
    ELSE IF Number(Head(list)) > n THEN n
    ELSE NextLoopCountAll(Tail(list), n + 1)

\* The loop of NextWorkspace over the reply of get_workspaces.
RECURSIVE NextLoop(_, _)
NextLoop(list, n) ==
    IF list = <<>> THEN n
    ELSE LET num == Number(Head(list))
         IN  IF num = 0 THEN NextLoop(Tail(list), n)
             ELSE IF num > n THEN n
             ELSE NextLoop(Tail(list), n + 1)

\* NextWorkspace: by default workspace numbers start at 1.
NextWorkspace(list) == NextLoop(list, 1)

(***************************************************************************)
(* matchPattern: the pattern is quoted, the wildcard is put back as a      *)
(* regular expression, and the expression is matched against the name.     *)
(***************************************************************************)

BS == "\\"
NL == "\n"

\* The characters regexp.QuoteMeta escapes.
ReSpecial == {BS, ".", "+", "*", "?", "(", ")", "|", "[", "]", "{", "}", "^", "$"}

\* regexp.QuoteMeta
RECURSIVE QuoteMeta(_)
QuoteMeta(s) ==
    IF s = <<>> THEN <<>>
    ELSE (IF Head(s) \in ReSpecial THEN <<BS, Head(s)>> ELSE <<Head(s)>>)
         \o QuoteMeta(Tail(s))

\* strings.TrimSuffix
TrimSuffix(s, suffix) ==
    IF HasSuffix(s, suffix) THEN SubSeq(s, 1, Len(s) - Len(suffix)) ELSE s

\* strings.ReplaceAll: the occurrences of old are taken leftmost first and
\* do not overlap.
RECURSIVE ReplaceAll(_, _, _)
ReplaceAll(s, old, new) ==
    IF s = <<>> THEN <<>>
    ELSE IF HasPrefix(s, old)
         THEN new \o ReplaceAll(SubSeq(s, Len(old) + 1, Len(s)), old, new)
         ELSE <<Head(s)>> \o ReplaceAll(Tail(s), old, new)

QuotedDots == <<BS, ".", BS, ".", BS, ".">>       \* `\.\.\.`
QuotedTail == <<"/">> \o QuotedDots               \* `/\.\.\.`
OptionalTail == <<"(", "/">> \o QuotedDots \o <<")", "?">>   \* `(/\.\.\.)?`

\* The compilation without the special case of the trailing /... .
PatternRegexpNoTail(pattern) ==
    ReplaceAll(QuoteMeta(pattern), QuotedDots, <<".", "*">>)

\* The regular expression matchPattern compiles, without its ^ and $.
PatternRegexp(pattern) ==
    LET quoted == QuoteMeta(pattern)
        tailed == IF HasSuffix(quoted, QuotedTail)
                  THEN TrimSuffix(quoted, QuotedTail) \o OptionalTail
                  ELSE quoted
    IN  ReplaceAll(tailed, QuotedDots, <<".", "*">>)

\* The index of the parenthesis closing the group opened before index i.
RECURSIVE GroupEnd(_, _)
GroupEnd(re, i) ==
    IF i > Len(re) THEN 0
    ELSE IF re[i] = BS THEN GroupEnd(re, i + 2)
    ELSE IF re[i] = ")" THEN i
    ELSE GroupEnd(re, i + 1)

\* package regexp, for the expressions PatternRegexp builds: whether the
\* whole of s matches re (the expression is compiled between ^ and $).  An
\* atom is an escaped character, a group, a dot (any character but a
\* newline) or a plain character, and may be followed by * or ?.
RECURSIVE RegexpMatch(_, _)
RegexpMatch(re, s) ==
    IF re = <<>> THEN s = <<>>
    ELSE
      LET isGroup == re[1] = "("
          atomLen == IF re[1] = BS THEN 2
                     ELSE IF isGroup THEN GroupEnd(re, 2)
                     ELSE 1
          post    == IF atomLen < Len(re) /\ re[atomLen + 1] \in {"*", "?"}
                     THEN re[atomLen + 1] ELSE ""
          rest    == SubSeq(re, atomLen + (IF post = "" THEN 1 ELSE 2), Len(re))
          ok(c)   == IF re[1] = BS THEN c = re[2]
                     ELSE IF re[1] = "." THEN c # NL
                     ELSE c = re[1]
      IN  IF isGroup
          THEN LET inner == SubSeq(re, 2, atomLen - 1)
               IN  \/ post = "?" /\ RegexpMatch(rest, s)
                   \/ RegexpMatch(inner \o rest, s)
          ELSE IF post = "*"
          THEN \E k \in 0..Len(s) :
                  /\ \A i \in 1..k : ok(s[i])
                  /\ RegexpMatch(rest, SubSeq(s, k + 1, Len(s)))
          ELSE IF post = "?"
          THEN \/ RegexpMatch(rest, s)
               \/ s # <<>> /\ ok(s[1]) /\ RegexpMatch(rest, Tail(s))
          ELSE s # <<>> /\ ok(s[1]) /\ RegexpMatch(rest, Tail(s))

\* matchPattern(pattern)(name) reports whether name matches pattern.
matchPattern(pattern, name) == RegexpMatch(PatternRegexp(pattern), name)

\* isLiteral returns true if pattern does not contain wildcards.
isLiteral(pattern) ==
    ~\E i \in 1..(Len(pattern) - 2) : SubSeq(pattern, i, i + 2) = <<".", ".", ".">>

(***************************************************************************)
(* File paths (package path/filepath on a system whose separator is "/").  *)
(***************************************************************************)

\* s cut at every "/".
RECURSIVE Split(_)
Split(s) ==
    LET i == IndexByte(s, "/")
    IN  IF i = 0 THEN <<s>>
        ELSE <<SubSeq(s, 1, i - 1)>> \o Split(SubSeq(s, i + 1, Len(s)))

RECURSIVE JoinSegs(_)
JoinSegs(segs) ==
    IF segs = <<>> THEN <<>>
    ELSE IF Len(segs) = 1 THEN segs[1]
    ELSE segs[1] \o <<"/">> \o JoinSegs(Tail(segs))

DotDot == <<".", ".">>

\* The elements of a path that Clean keeps: empty and "." elements go, and
\* ".." takes the element before it away (or goes, at the root).
RECURSIVE CleanSegs(_, _, _)
CleanSegs(segs, rooted, kept) ==
    IF segs = <<>> THEN kept
    ELSE LET e == Head(segs)
         IN  IF e = <<>> \/ e = <<".">> THEN CleanSegs(Tail(segs), rooted, kept)
             ELSE IF e = DotDot
             THEN IF kept # <<>> /\ kept[Len(kept)] # DotDot
                  THEN CleanSegs(Tail(segs), rooted, SubSeq(kept, 1, Len(kept) - 1))
                  ELSE IF rooted THEN CleanSegs(Tail(segs), rooted, kept)
                  ELSE CleanSegs(Tail(segs), rooted, Append(kept, e))
             ELSE CleanSegs(Tail(segs), rooted, Append(kept, e))

\* filepath.Clean
Clean(path) ==
    IF path = <<>> THEN <<".">>
    ELSE LET rooted == path[1] = "/"
             body   == JoinSegs(CleanSegs(Split(path), rooted, <<>>))
         IN  IF rooted THEN <<"/">> \o body
             ELSE IF body = <<>> THEN <<".">> ELSE body

\* filepath.Join of two elements: empty elements are ignored, the result is cleaned.
Join(a, b) ==
    IF a = <<>> /\ b = <<>> THEN <<>>
    ELSE IF a = <<>> THEN Clean(b)
    ELSE IF b = <<>> THEN Clean(a)
    ELSE Clean(a \o <<"/">> \o b)

\* filepath.Base of a clean path that is not the root.
Base(path) == SubSeq(path, LastIndexByte(path, "/") + 1, Len(path))

\* filepath.Dir of a clean path.
Dir(path) ==
    LET i == LastIndexByte(path, "/")
    IN  IF i = 0 THEN <<".">>
        ELSE IF i = 1 THEN <<"/">>
        ELSE SubSeq(path, 1, i - 1)

\* filepath.Rel for a target at or below the base, which is where the walk
\* of a root finds its directories.
Rel(basepath, targpath) ==
    LET base == Clean(basepath)
        targ == Clean(targpath)
    IN  IF targ = base THEN <<".">>
        ELSE SubSeq(targ, Len(base) + 2, Len(targ))

\* filepath.IsAbs
IsAbs(path) == HasPrefix(path, <<"/">>)

(***************************************************************************)
(* The file system and the configuration the resolution reads.             *)
(***************************************************************************)

SrcName == <<"s", "r", "c">>
GoModName == <<"g", "o", ".", "m", "o", "d">>
OtherName == <<"m", "a", "i", "n", ".", "g", "o">>

Slash(a, b) == a \o <<"/">> \o b

\* The entries GOPATH is made of: a directory, and a directory inside the
\* src tree of the first.
GopathG == <<"/", "g">>
GopathX == Slash(Slash(GopathG, SrcName), <<"x">>)
GopathEntries == {GopathG, GopathX}

\* An entry of GOPATH that names no directory.
GopathN == <<"/", "n">>

\* The directories that may hold a module, in the lexical order in which a
\* walk comes to them.
IdXY == <<"x", ".", "y">>
IdXYZ == <<"x", ".", "y", "/", "z">>
IdXYSlash == <<"x", ".", "y", "/">>
IdNested == <<"x", "/", "s", "r", "c", "/", "x", ".", "y">>

DirNested == Slash(Slash(GopathX, SrcName), IdXY)     \* /g/src/x/src/x.y
DirXY == Slash(Slash(GopathG, SrcName), IdXY)         \* /g/src/x.y
DirXYZ == Slash(DirXY, <<"z">>)                       \* /g/src/x.y/z
Dirs == <<DirNested, DirXY, DirXYZ>>
DirSet == {Dirs[i] : i \in 1..Len(Dirs)}

\* What a directory holds under the name go.mod.
NoFile == [kind |-> "nofile"]          \* nothing: a directory without a manifest
GoModDir == [kind |-> "dir"]           \* a directory named go.mod
Unreadable == [kind |-> "unreadable"]  \* a file ReadFile fails on
Malformed == [kind |-> "malformed"]    \* a file modfile.Parse fails on
Manifest(hasModule, module, hasGo, go) ==
    [kind |-> "manifest", hasModule |-> hasModule, module |-> module,
     hasGo |-> hasGo, go |-> go]

Go114 == <<"1", ".", "1", "4">>
DefaultGoVersion == <<"1", ".", "1", "3">>

GoMods ==
    { NoFile, GoModDir, Unreadable, Malformed,
      Manifest(FALSE, <<>>, FALSE, <<>>),
      Manifest(TRUE, IdXY, TRUE, Go114),
      Manifest(TRUE, IdXYZ, TRUE, Go114),
      Manifest(TRUE, IdXYSlash, TRUE, Go114),
      Manifest(TRUE, IdNested, TRUE, Go114) }

\* What is written as go.mod in each directory: in x.y everything but the
\* identity of the nested directory, in the two others nothing, a manifest
\* that cannot be loaded, and the manifests that declare no identity, the
\* identity of the directory or the identity of x.y.
GoModsAt(d) ==
    IF d = DirXY THEN GoMods \ {Manifest(TRUE, IdNested, TRUE, Go114)}
    ELSE IF d = DirXYZ
    THEN { NoFile, Unreadable, Manifest(FALSE, <<>>, FALSE, <<>>),
           Manifest(TRUE, IdXY, TRUE, Go114), Manifest(TRUE, IdXYZ, TRUE, Go114) }
    ELSE { NoFile, Malformed, Manifest(FALSE, <<>>, FALSE, <<>>),
           Manifest(TRUE, IdXY, TRUE, Go114), Manifest(TRUE, IdNested, TRUE, Go114) }

MaxRoots == 2       \* entries of GOPATH at most

\* The values of GOPATH: unset, a list of entries (repeats included), or a
\* list with the entry that names no directory.
RECURSIVE ListsUpTo(_, _)
ListsUpTo(S, n) ==
    IF n = 0 THEN {<<>>}
    ELSE LET shorter == ListsUpTo(S, n - 1)
         IN  shorter \cup {Append(l, e) : l \in {t \in shorter : Len(t) = n - 1}, e \in S}

Gopaths ==
    {[set |-> FALSE, list |-> <<>>]}
        \cup {[set |-> TRUE, list |-> l] : l \in ListsUpTo(GopathEntries, MaxRoots)}
        \cup {[set |-> TRUE, list |-> l] :
                 l \in {<<GopathN>>, <<GopathN, GopathG>>, <<GopathG, GopathN>>}}

\* The root MatchModules walks for an entry of GOPATH:
\* filepath.Clean(filepath.Join(dirpath, "src")) + "/".
SrcRoot(dirpath) == Clean(Join(dirpath, SrcName)) \o <<"/">>

\* The entries filepath.Walk hands to the callback: root as it was given,
\* then each directory below it and what the directory holds.  A root that
\* is no directory is handed over alone, with the error of its lstat.
RECURSIVE WalkFrom(_, _, _)
WalkFrom(f, root, i) ==
    IF i > Len(Dirs) THEN <<>>
    ELSE LET d == Dirs[i]
             gomod == IF f[d].kind = "nofile" THEN <<>>
                      ELSE <<[path |-> Join(d, GoModName), isDir |-> f[d].kind = "dir",
                              err |-> FALSE]>>
         IN  (IF HasPrefix(d, root)
              THEN <<[path |-> d, isDir |-> TRUE, err |-> FALSE]>> \o gomod
                       \o <<[path |-> Join(d, OtherName), isDir |-> FALSE, err |-> FALSE]>>
              ELSE <<>>)
             \o WalkFrom(f, root, i + 1)

Walk(f, root) ==
    IF \E i \in 1..Len(Dirs) : HasPrefix(Dirs[i], root)
    THEN <<[path |-> root, isDir |-> TRUE, err |-> FALSE]>> \o WalkFrom(f, root, 1)
    ELSE <<[path |-> root, isDir |-> FALSE, err |-> TRUE]>>

\* ioutil.ReadFile of the go.mod file of a directory.
ReadFile(f, dirpath) ==
    IF dirpath \in DirSet /\ f[dirpath].kind \in {"malformed", "manifest"}
    THEN [err |-> FALSE, data |-> f[dirpath]]
    ELSE [err |-> TRUE, data |-> NoFile]

\* modfile.Parse of what was read.
Parse(data) ==
    IF data.kind = "manifest"
    THEN [err |-> FALSE, file |-> data]
    ELSE [err |-> TRUE, file |-> NoFile]

(***************************************************************************)
(* Package search: MatchModules, ModulePath, Resolve and load.             *)
(***************************************************************************)

\* isRelativePath without the test of the "../" prefix.
isRelativePathNoParent(path) ==
    \/ path = <<".">>
    \/ path = DotDot
    \/ HasPrefix(path, <<".", "/">>)

\* isRelativePath reports whether pattern should be interpreted as a
\* directory path relative to the current directory.
isRelativePath(path) ==
    \/ path = <<".">>
    \/ path = DotDot
    \/ HasPrefix(path, <<".", "/">>)
    \/ HasPrefix(path, <<".", ".", "/">>)

NoModule == [nil |-> TRUE]

\* search.load with a missing module directive as an error.
searchLoadDeclared(f, root, dirpath) ==
    LET rd     == ReadFile(f, dirpath)
        parsed == Parse(rd.data)
        file   == parsed.file
    IN  IF rd.err \/ parsed.err \/ ~file.hasModule THEN [err |-> TRUE, mod |-> NoModule]
        ELSE IF Join(root, file.module) # dirpath THEN [err |-> TRUE, mod |-> NoModule]
        ELSE [err |-> FALSE,
              mod |-> [Path |-> file.module, Version |-> <<>>, Main |-> TRUE,
                       Dir |-> dirpath,
                       GoMod |-> IF file.hasGo THEN file.go ELSE DefaultGoVersion,
                       GoVersion |-> <<>>]]

\* search.load loads the module at dirpath.  The version of the go directive
\* is stored in GoMod, as the code stores it.
searchLoad(f, root, dirpath) ==
    LET rd     == ReadFile(f, dirpath)
        parsed == Parse(rd.data)
        file   == parsed.file
        path   == IF file.hasModule THEN file.module ELSE Rel(root, dirpath)
    IN  IF rd.err \/ parsed.err THEN [err |-> TRUE, mod |-> NoModule]
        ELSE IF Join(root, path) # dirpath THEN [err |-> TRUE, mod |-> NoModule]
        ELSE [err |-> FALSE,
              mod |-> [Path |-> path, Version |-> <<>>, Main |-> TRUE, Dir |-> dirpath,
                       GoMod |-> IF file.hasGo THEN file.go ELSE DefaultGoVersion,
                       GoVersion |-> <<>>]]

\* What a pass over the roots has gathered: the matching modules, each
\* with the root it was found under, the roots walked, the manifests read,
\* and whether the environment was read.
NoMatch ==
    [panic |-> FALSE, found |-> <<>>, walked |-> 0, reads |-> 0, env |-> FALSE]

GopathPanic == [NoMatch EXCEPT !.panic = TRUE, !.env = TRUE]

\* Whether the callback of MatchModules goes on to load the entry.
IsCandidate(root, e) ==
    ~(e.err \/ e.path = root \/ e.isDir \/ Base(e.path) # GoModName)

\* The callback without the test of the pattern: every module loaded is
\* appended.
searchVisitAll(f, root, pattern, e) ==
    IF ~IsCandidate(root, e) THEN <<>>
    ELSE LET l == searchLoad(f, root, Dir(e.path))
         IN  IF l.err THEN <<>>
             ELSE <<[mod |-> l.mod, root |-> root]>>

\* The callback MatchModules gives to filepath.Walk: what it appends to the
\* matching modules.
searchVisit(f, root, pattern, e) ==
    IF ~IsCandidate(root, e) THEN <<>>
    ELSE LET l == searchLoad(f, root, Dir(e.path))
         IN  IF l.err THEN <<>>
             ELSE IF ~matchPattern(pattern, l.mod.Path) THEN <<>>
             ELSE <<[mod |-> l.mod, root |-> root]>>

\* The walk ended by the first manifest that fails to load.
RECURSIVE searchWalkAbort(_, _, _, _)
searchWalkAbort(f, root, pattern, entries) ==
    IF entries = <<>> THEN <<>>
    ELSE IF /\ IsCandidate(root, Head(entries))
            /\ searchLoad(f, root, Dir(Head(entries).path)).err
    THEN <<>>
    ELSE searchVisit(f, root, pattern, Head(entries))
             \o searchWalkAbort(f, root, pattern, Tail(entries))

RECURSIVE searchWalk(_, _, _, _)
searchWalk(f, root, pattern, entries) ==
    IF entries = <<>> THEN <<>>
    ELSE searchVisit(f, root, pattern, Head(entries))
             \o searchWalk(f, root, pattern, Tail(entries))

RECURSIVE searchRoots(_, _, _)
searchRoots(f, list, pattern) ==
    IF list = <<>> THEN <<>>
    ELSE searchWalk(f, SrcRoot(Head(list)), pattern, Walk(f, SrcRoot(Head(list))))
             \o searchRoots(f, Tail(list), pattern)

\* The manifests a walk loads.
RECURSIVE CountLoads(_, _)
CountLoads(root, entries) ==
    IF entries = <<>> THEN 0
    ELSE (IF IsCandidate(root, Head(entries)) THEN 1 ELSE 0)
             + CountLoads(root, Tail(entries))

\* The manifests the walks of the roots of a list load.
RECURSIVE Loads(_, _)
Loads(f, list) ==
    IF list = <<>> THEN 0
    ELSE CountLoads(SrcRoot(Head(list)), Walk(f, SrcRoot(Head(list))))
             + Loads(f, Tail(list))

\* MatchModules reading GOPATH with os.Getenv: not set is the empty list.
searchMatchModulesGetenv(g, f, pattern) ==
    [panic |-> FALSE, found |-> searchRoots(f, g.list, pattern),
     walked |-> Len(g.list), reads |-> Loads(f, g.list), env |-> TRUE]

\* search.MatchModules; gopath panics when GOPATH is not set.
searchMatchModules(g, f, pattern) ==
    IF ~g.set THEN GopathPanic
    ELSE [panic |-> FALSE, found |-> searchRoots(f, g.list, pattern),
          walked |-> Len(g.list), reads |-> Loads(f, g.list), env |-> TRUE]

\* search.ModulePath
searchModulePath(g, f, pattern) ==
    IF IsAbs(pattern) THEN NoMatch
    ELSE IF isRelativePath(pattern) THEN NoMatch
    ELSE searchMatchModules(g, f, pattern)

\* What a Resolve returns: a module, an error (the format of fmt.Errorf and
\* its arguments), or a panic.
Resolved(m, mod) ==
    [panic |-> FALSE, ok |-> TRUE, mod |-> mod, format |-> "", args |-> <<>>,
     walked |-> m.walked, reads |-> m.reads, env |-> m.env]

Failed(m, format, args) ==
    [panic |-> FALSE, ok |-> FALSE, mod |-> NoModule, format |-> format, args |-> args,
     walked |-> m.walked, reads |-> m.reads, env |-> m.env]

Panicked(m) ==
    [panic |-> TRUE, ok |-> FALSE, mod |-> NoModule, format |-> "", args |-> <<>>,
     walked |-> m.walked, reads |-> m.reads, env |-> m.env]

\* The end of search.Resolve and of the resolve of package main, on the
\* modules gathered.
UnableUnlessOne(m, pattern) ==
    IF m.panic THEN Panicked(m)
    ELSE IF Len(m.found) # 1 THEN Failed(m, "resolve %q: unable to resolve", <<pattern>>)
    ELSE Resolved(m, m.found[1].mod)

\* The same, returning the first module when several were gathered.
UnableUnlessSome(m, pattern) ==
    IF m.panic THEN Panicked(m)
    ELSE IF Len(m.found) = 0 THEN Failed(m, "resolve %q: unable to resolve", <<pattern>>)
    ELSE Resolved(m, m.found[1].mod)

\* A Resolve that returns the first module when several match.
searchResolveFirst(g, f, pattern) ==
    CHOOSE r \in {UnableUnlessSome(m, pattern) : m \in {searchModulePath(g, f, pattern)}} : TRUE

\* search.Resolve
searchResolve(g, f, pattern) ==
    CHOOSE r \in {UnableUnlessOne(m, pattern) : m \in {searchModulePath(g, f, pattern)}} : TRUE

(***************************************************************************)
(* Package mod: the resolution over "go list -m" (modlist.Loader).         *)
(***************************************************************************)

Letters == {"g", "m", "o", "s", "r", "c", "x", "y", "z"}

\* The characters module.CheckImportPath accepts in a path element.
ImportPathOK(c) == c \in Letters \/ IsDigit(c) \/ c \in {"-", ".", "_", "~", "+"}

checkElem(elem) ==
    /\ elem # <<>>
    /\ \E i \in 1..Len(elem) : elem[i] # "."
    /\ elem[Len(elem)] # "."
    /\ \A i \in 1..Len(elem) : ImportPathOK(elem[i])

\* golang.org/x/mod/module.CheckImportPath: TRUE when the path is accepted.
CheckImportPath(path) ==
    /\ path # <<>>
    /\ path[1] # "-"
    /\ path[Len(path)] # "/"
    /\ \A i \in 1..Len(Split(path)) : checkElem(Split(path)[i])

\* modlist.Loader.Load in dirpath: the main module as "go list -m" reports
\* it.  The go command fails without a readable, well-formed go.mod that
\* declares a module; strict tells whether it also refuses a module path
\* that is no valid import path (releases of the go command differ).
modlistLoad(f, dirpath, strict) ==
    LET rd     == ReadFile(f, dirpath)
        parsed == Parse(rd.data)
        file   == parsed.file
    IN  IF rd.err \/ parsed.err THEN [err |-> TRUE, mod |-> NoModule]
        ELSE IF ~file.hasModule THEN [err |-> TRUE, mod |-> NoModule]
        ELSE IF strict /\ ~CheckImportPath(file.module) THEN [err |-> TRUE, mod |-> NoModule]
        ELSE [err |-> FALSE,
              mod |-> [Path |-> file.module, Version |-> <<>>, Main |-> TRUE,
                       Dir |-> dirpath, GoMod |-> Join(dirpath, GoModName),
                       GoVersion |-> IF file.hasGo THEN file.go ELSE <<>>]]

\* mod.load: the module path must be inside one of the GOPATH directories.
modLoad(g, f, dirpath, strict) ==
    LET l == modlistLoad(f, dirpath, strict)
    IN  IF l.err THEN l
        ELSE IF \E i \in 1..Len(g.list) :
                    Join(Join(g.list[i], SrcName), l.mod.Path) = dirpath
        THEN l
        ELSE [err |-> TRUE, mod |-> NoModule]

\* The callback mod.MatchModules gives to filepath.Walk.
modVisit(g, f, root, pattern, strict, e) ==
    IF ~IsCandidate(root, e) THEN <<>>
    ELSE LET l == modLoad(g, f, Dir(e.path), strict)
         IN  IF l.err THEN <<>>
             ELSE IF ~matchPattern(pattern, l.mod.Path) THEN <<>>
             ELSE <<[mod |-> l.mod, root |-> root]>>

RECURSIVE modWalk(_, _, _, _, _, _)
modWalk(g, f, root, pattern, strict, entries) ==
    IF entries = <<>> THEN <<>>
    ELSE modVisit(g, f, root, pattern, strict, Head(entries))
             \o modWalk(g, f, root, pattern, strict, Tail(entries))

RECURSIVE modRoots(_, _, _, _, _)
modRoots(g, f, list, pattern, strict) ==
    IF list = <<>> THEN <<>>
    ELSE modWalk(g, f, SrcRoot(Head(list)), pattern, strict, Walk(f, SrcRoot(Head(list))))
             \o modRoots(g, f, Tail(list), pattern, strict)

\* mod.MatchModules
modMatchModules(g, f, pattern, strict) ==
    IF ~g.set THEN GopathPanic
    ELSE [panic |-> FALSE, found |-> modRoots(g, f, g.list, pattern, strict),
          walked |-> Len(g.list), reads |-> Loads(f, g.list), env |-> TRUE]

\* The switch of mod.Resolve on the modules matched.
OneOrError(m, pattern) ==
    IF m.panic THEN Panicked(m)
    ELSE IF Len(m.found) = 0 THEN Failed(m, "resolve: %q: no modules matched", <<pattern>>)
    ELSE IF Len(m.found) > 1
    THEN Failed(m, "resolve: %q: multiple modules matched", <<pattern>>)
    ELSE Resolved(m, m.found[1].mod)

\* mod.Resolve
modResolve(g, f, pattern, strict) ==
    IF IsAbs(pattern) THEN Failed(NoMatch, "resolve: %q: absolute path", <<pattern>>)
    ELSE IF isRelativePath(pattern)
    THEN Failed(NoMatch, "resolve: %q: relative path", <<pattern>>)
    ELSE CHOOSE r \in {OneOrError(m, pattern) :
                          m \in {modMatchModules(g, f, pattern, strict)}} : TRUE

(***************************************************************************)
(* Package load and the resolve of package main.                           *)
(***************************************************************************)

NoError == ""

\* The raw module package load reads from package search: package search as
\* it stands has neither the Root field nor a GoMod that is still the path
\* of the manifest, so both are taken from the description of the raw
\* candidate (root directory, directory, manifest path).
RawModule(mod, root) ==
    [Path |-> mod.Path, Dir |-> mod.Dir, GoMod |-> Join(mod.Dir, GoModName),
     Root |-> root]

\* load.load loads the raw module.  A returned error comes with a nil module.
\* The version of the go directive is stored in GoMod, as the code stores it.
loadLoad(f, raw) ==
    LET rd     == ReadFile(f, Dir(raw.GoMod))
        parsed == Parse(rd.data)
        file   == parsed.file
        path   == IF file.hasModule THEN file.module ELSE raw.Path
        invalid == file.hasModule /\ ~CheckImportPath(file.module)
        misplaced == Join(raw.Root, path) # raw.Dir
    IN  IF rd.err \/ parsed.err THEN [err |-> TRUE, mod |-> NoModule]
        ELSE [err |-> FALSE,
              mod |-> [Path |-> path, Version |-> <<>>, Main |-> FALSE, Dir |-> raw.Dir,
                       GoMod |-> IF file.hasGo THEN file.go ELSE DefaultGoVersion,
                       GoVersion |-> <<>>, Root |-> raw.Root,
                       Error |-> IF misplaced THEN "not in $GOPATH"
                                 ELSE IF invalid THEN "invalid importpath"
                                 ELSE NoError]]

\* The loop of ModulesAndErrors over the raw modules.
RECURSIVE loadEach(_, _)
loadEach(f, found) ==
    IF found = <<>> THEN <<>>
    ELSE <<loadLoad(f, RawModule(Head(found).mod, Head(found).root))>>
             \o loadEach(f, Tail(found))

\* ModulesAndErrors stores an error of load in the module load returned,
\* which is nil then: the assignment panics.
Loaded(m, loads) ==
    IF \E i \in 1..Len(loads) : loads[i].err
    THEN [m EXCEPT !.panic = TRUE, !.found = <<>>, !.reads = @ + Len(loads)]
    ELSE [m EXCEPT !.found = [i \in 1..Len(loads) |-> [mod |-> loads[i].mod,
                                                       root |-> m.found[i].root]],
                   !.reads = @ + Len(loads)]

\* load.ModulesAndErrors
ModulesAndErrors(g, f, pattern) ==
    CHOOSE r \in {IF m.panic THEN m
                  ELSE CHOOSE x \in {Loaded(m, loads) : loads \in {loadEach(f, m.found)}} : TRUE
                    : m \in {searchModulePath(g, f, pattern)}} : TRUE

\* The modules without a load error, in order.
RECURSIVE WithoutError(_)
WithoutError(found) ==
    IF found = <<>> THEN <<>>
    ELSE (IF Head(found).mod.Error = NoError THEN <<Head(found)>> ELSE <<>>)
         \o WithoutError(Tail(found))

\* The modules that Modules keeps.
Kept(m) == IF m.panic THEN m ELSE [m EXCEPT !.found = WithoutError(m.found)]

\* load.Modules
Modules(g, f, pattern) ==
    CHOOSE r \in {Kept(m) : m \in {ModulesAndErrors(g, f, pattern)}} : TRUE

\* resolve of package main
mainResolve(g, f, pattern) ==
    CHOOSE r \in {UnableUnlessOne(m, pattern) : m \in {Modules(g, f, pattern)}} : TRUE

(***************************************************************************)
(* Package i3 as a state machine: the window manager opens and closes      *)
(* workspaces, the program asks for the next workspace number and switches *)
(* to a workspace.                                                         *)
(***************************************************************************)

MaxWs == 3          \* workspaces the window manager holds at most
MaxNameLen == 3     \* length of the workspace names given to Number
MaxNum == 12        \* workspace numbers given to Workspace in the round trip
MaxLabelLen == 2    \* length of the labels given to Workspace in the round trip

\* The names under which the window manager's user opens workspaces.
WmNames ==
    { <<"1">>, <<"2">>, <<"3">>, <<"4">>, <<"1", ":", "w">>, <<"w">> }

\* The label of the workspaces the program opens (a module's short name).
WsLabel == <<"w">>

NameChars == {"0", "1", "2", ":", "-", "+", "w"}
Names == StringsUpTo(NameChars, MaxNameLen)

LabelChars == {"w", ":", "7"}
Labels == StringsUpTo(LabelChars, MaxLabelLen) \ {<<>>}

NoCall == [op |-> "none"]

\* No run of the launcher is in progress.
NoRun == [pc |-> "idle"]

InList(list, name) == \E i \in 1..Len(list) : list[i] = name

InsertAt(list, pos, name) ==
    SubSeq(list, 1, pos - 1) \o <<name>> \o SubSeq(list, pos, Len(list))

RemoveAt(list, pos) ==
    SubSeq(list, 1, pos - 1) \o SubSeq(list, pos + 1, Len(list))

\* The resolution at rest: GOPATH names one directory, no directory holds a manifest.
ResolveIdle ==
    /\ gopath = [set |-> TRUE, list |-> <<GopathG>>]
    /\ fs = [d \in DirSet |-> NoFile]
    /\ res = NoCall
    /\ run = NoRun

I3Init ==
    /\ wsList = <<>>
    /\ i3res = NoCall
    /\ mres = NoCall
    /\ ResolveIdle

\* The user opens a workspace; get_workspaces lists the workspaces output by
\* output, so a new workspace can show up anywhere in the reply.
WmOpen(name, pos) ==
    /\ Len(wsList) < MaxWs
    /\ ~InList(wsList, name)
    /\ wsList' = InsertAt(wsList, pos, name)
    /\ i3res' = NoCall
    /\ UNCHANGED <<mres, run, rvars>>

WmClose(pos) ==
    /\ wsList' = RemoveAt(wsList, pos)
    /\ i3res' = NoCall
    /\ UNCHANGED <<mres, run, rvars>>

\* NextWorkspace with a reply from the window manager.
NextWorkspaceCall ==
    /\ i3res' = [op |-> "NextWorkspace", err |-> FALSE, n |-> NextWorkspace(wsList)]
    /\ UNCHANGED <<wsList, mres, run, rvars>>

\* NextWorkspace when invoke or decode fails.
NextWorkspaceFail ==
    /\ i3res' = [op |-> "NextWorkspace", err |-> TRUE, n |-> 0]
    /\ UNCHANGED <<wsList, mres, run, rvars>>

\* Workspace(num, name): the window manager switches to the workspace named
\* by the target and creates it when there is none of that name.
WorkspaceCall(num, name) ==
    LET target == WorkspaceTarget(num, name)
    IN  /\ InList(wsList, target) \/ Len(wsList) < MaxWs
        /\ wsList' = IF InList(wsList, target) THEN wsList ELSE Append(wsList, target)
        /\ i3res' = [op |-> "Workspace", err |-> FALSE, num |-> num, name |-> name,
                     target |-> target]
        /\ UNCHANGED <<mres, run, rvars>>

\* Workspace when invoke fails: nothing is switched.
WorkspaceFail(num, name) ==
    /\ i3res' = [op |-> "Workspace", err |-> TRUE, num |-> num, name |-> name,
                 target |-> <<>>]
    /\ UNCHANGED <<wsList, mres, run, rvars>>

I3Next ==
    \/ \E name \in WmNames, pos \in 1..(Len(wsList) + 1) : WmOpen(name, pos)
    \/ \E pos \in 1..Len(wsList) : WmClose(pos)
    \/ NextWorkspaceCall
    \/ NextWorkspaceFail
    \/ \E num \in 1..(MaxWs + 1) : WorkspaceCall(num, WsLabel)
    \/ \E num \in 1..(MaxWs + 1) : WorkspaceFail(num, WsLabel)

SpecI3 == I3Init /\ [][I3Next]_vars

\* The pure functions of package i3 applied to drawn inputs.
NumberCall(name) ==
    /\ i3res' = [op |-> "Number", name |-> name, n |-> Number(name)]
    /\ UNCHANGED <<wsList, mres, run, rvars>>

FormatCall(num, name) ==
    /\ i3res' = [op |-> "Format", num |-> num, name |-> name,
                 target |-> WorkspaceTarget(num, name),
                 n |-> Number(WorkspaceTarget(num, name))]
    /\ UNCHANGED <<wsList, mres, run, rvars>>

NumNext ==
    \/ \E name \in Names : NumberCall(name)
    \/ \E num \in 1..MaxNum, name \in Labels : FormatCall(num, name)

SpecNum == I3Init /\ [][NumNext]_vars

(***************************************************************************)
(* matchPattern applied to drawn patterns.                                 *)
(***************************************************************************)
MaxPatLen == 5      \* length of the patterns compiled
MaxIdLen == 3       \* length of the names the compiled patterns are applied to

PatChars == {"x", "/", ".", "+"}
MatchPatterns == StringsUpTo(PatChars, MaxPatLen)

IdChars == {"x", "/", ".", "+", NL}
MatchNames == StringsUpTo(IdChars, MaxIdLen)

MatchInit ==
    /\ wsList = <<>>
    /\ i3res = NoCall
    /\ mres \in {[op |-> "input", pattern |-> pattern] : pattern \in MatchPatterns}
    /\ ResolveIdle

\* The pattern drawn is compiled and applied to every name.
MatchCall ==
    /\ mres.op = "input"
    /\ mres' = [op |-> "matchPattern", pattern |-> mres.pattern,
                matched |-> {name \in MatchNames : matchPattern(mres.pattern, name)}]
    /\ UNCHANGED <<i3vars, run, rvars>>

MatchNext == MatchCall

SpecMatch == MatchInit /\ [][MatchNext]_vars

(***************************************************************************)
(* The resolution as a state machine: the file system and GOPATH change    *)
(* while no call is in progress, and a call resolves a pattern against     *)
(* the file system and the GOPATH of the moment.                           *)
(***************************************************************************)

\* The patterns given to Resolve.
Patterns ==
    { IdXY, IdXYZ, IdXYSlash,
      <<"x", ".", "y", "/", ".", ".", ".">>,      \* x.y/...
      <<".", ".", ".">>,                          \* ...
      <<".">>, DotDot,
      <<".", "/", "x", ".", "y">>,                \* ./x.y
      <<".", ".", "/", "x", ".", "y">>,           \* ../x.y
      <<"/", "x", ".", "y">> }                    \* /x.y

Init ==
    /\ wsList = <<>>
    /\ i3res = NoCall
    /\ mres = NoCall
    /\ ResolveIdle

\* A manifest is written, replaced or removed.
WriteGoMod(d, c) ==
    /\ res = NoCall
    /\ fs[d] # c
    /\ fs' = [fs EXCEPT ![d] = c]
    /\ UNCHANGED <<i3vars, mres, run, gopath, res>>

\* GOPATH is set or unset.
SetGopath(g) ==
    /\ res = NoCall
    /\ gopath # g
    /\ gopath' = g
    /\ UNCHANGED <<i3vars, mres, run, fs, res>>

SearchResolveCall(pattern) ==
    /\ res = NoCall
    /\ res' = [op |-> "search.Resolve", pattern |-> pattern,
               match |-> searchModulePath(gopath, fs, pattern),
               ret |-> searchResolve(gopath, fs, pattern)]
    /\ UNCHANGED <<i3vars, mres, run, gopath, fs>>

ModResolveCall(pattern, strict) ==
    /\ res = NoCall
    /\ res' = [op |-> "mod.Resolve", pattern |-> pattern, strict |-> strict,
               ret |-> modResolve(gopath, fs, pattern, strict)]
    /\ UNCHANGED <<i3vars, mres, run, gopath, fs>>

MainResolveCall(pattern) ==
    /\ res = NoCall
    /\ res' = [op |-> "main.resolve", pattern |-> pattern,
               all |-> ModulesAndErrors(gopath, fs, pattern),
               modules |-> Modules(gopath, fs, pattern),
               ret |-> mainResolve(gopath, fs, pattern)]
    /\ UNCHANGED <<i3vars, mres, run, gopath, fs>>

\* The caller has taken the result.
Return ==
    /\ res # NoCall
    /\ res' = NoCall
    /\ UNCHANGED <<i3vars, mres, run, gopath, fs>>

Next ==
    \/ \E d \in DirSet : \E c \in GoModsAt(d) : WriteGoMod(d, c)
    \/ \E g \in Gopaths : SetGopath(g)
    \/ \E pattern \in Patterns : SearchResolveCall(pattern)
    \/ \E pattern \in Patterns, strict \in BOOLEAN : ModResolveCall(pattern, strict)
    \/ \E pattern \in Patterns : MainResolveCall(pattern)
    \/ Return

Spec == Init /\ [][Next]_vars

(***************************************************************************)
(* The resolution while a manifest is withdrawn: the walk has listed the   *)
(* files, and a manifest is removed, or made unreadable or malformed,      *)
(* before it is read.                                                      *)
(***************************************************************************)

\* The roots walked on the files as they were, the manifests loaded from
\* the files as they are.
RECURSIVE searchRootsAfter(_, _, _, _)
searchRootsAfter(walked, f, list, pattern) ==
    IF list = <<>> THEN <<>>
    ELSE searchWalk(f, SrcRoot(Head(list)), pattern, Walk(walked, SrcRoot(Head(list))))
             \o searchRootsAfter(walked, f, Tail(list), pattern)

\* search.Resolve when the files change between the walk and the loads.
searchResolveAfter(g, walked, f, pattern) ==
    IF IsAbs(pattern) \/ isRelativePath(pattern) THEN UnableUnlessOne(NoMatch, pattern)
    ELSE IF ~g.set THEN Panicked(GopathPanic)
    ELSE CHOOSE r \in
            {UnableUnlessOne([panic |-> FALSE, found |-> found, walked |-> Len(g.list),
                              reads |-> Loads(walked, g.list), env |-> TRUE], pattern) :
                found \in {searchRootsAfter(walked, f, g.list, pattern)}} : TRUE

\* The resolve of package main when the files change between the loads of
\* package search and the loads of package load.
mainResolveAfter(g, searched, f, pattern) ==
    CHOOSE r \in
        {IF m.panic THEN Panicked(m)
         ELSE CHOOSE x \in {UnableUnlessOne(Kept(Loaded(m, loads)), pattern) :
                               loads \in {loadEach(f, m.found)}} : TRUE
           : m \in {searchModulePath(g, searched, pattern)}} : TRUE

\* What a withdrawn manifest becomes.
Withdrawn == {NoFile, Unreadable, Malformed}

\* The patterns resolved while a manifest is withdrawn.
RacePatterns ==
    { IdXY,
      <<"x", ".", "y", "/", ".", ".", ".">>,      \* x.y/...
      <<".", ".", ".">> }                         \* ...

\* search.Resolve, the manifest of d withdrawn after the walk listed it.
SearchResolveWithdrawn(pattern, d, c) ==
    /\ res = NoCall
    /\ fs[d].kind = "manifest"
    /\ fs' = [fs EXCEPT ![d] = c]
    /\ res' = [op |-> "search.Resolve", pattern |-> pattern, withdrawn |-> d,
               ret |-> searchResolveAfter(gopath, fs, fs', pattern)]
    /\ UNCHANGED <<i3vars, mres, run, gopath>>

\* resolve of package main, the manifest of d withdrawn after package search
\* loaded it.
MainResolveWithdrawn(pattern, d, c) ==
    /\ res = NoCall
    /\ fs[d].kind = "manifest"
    /\ fs' = [fs EXCEPT ![d] = c]
    /\ res' = [op |-> "main.resolve", pattern |-> pattern, withdrawn |-> d,
               ret |-> mainResolveAfter(gopath, fs, fs', pattern)]
    /\ UNCHANGED <<i3vars, mres, run, gopath>>

RaceNext ==
    \/ \E d \in DirSet : \E c \in GoModsAt(d) : WriteGoMod(d, c)
    \/ \E pattern \in RacePatterns, d \in DirSet :
          \E c \in GoModsAt(d) \cap Withdrawn : SearchResolveWithdrawn(pattern, d, c)
    \/ \E pattern \in RacePatterns, d \in DirSet :
          \E c \in GoModsAt(d) \cap Withdrawn : MainResolveWithdrawn(pattern, d, c)
    \/ Return

SpecRace == Init /\ [][RaceNext]_vars

(***************************************************************************)
(* The launcher: main parses its flags, resolves the pattern, switches to  *)
(* the workspace, starts the terminal and starts the editor.  Each call    *)
(* out of the program (the window manager, a process to start) is a step   *)
(* of its own, with the outcomes the call can have.                        *)
(***************************************************************************)

\* Name cutting after a leading "/" too.
NameAnySlash(path) ==
    LET i == LastIndexByte(path, "/")
    IN  IF i > 0 THEN SubSeq(path, i + 1, Len(path)) ELSE path

\* Module.Name returns the short name of the module.
Name(path) ==
    LET i == LastIndexByte(path, "/")
    IN  IF i > 1 THEN SubSeq(path, i + 1, Len(path)) ELSE path

WorkspaceWord == <<"w", "o", "r", "k", "s", "p", "a", "c", "e">>

\* The message Workspace hands to invoke: Sprintf("workspace %d:%s", num, name).
WorkspaceMsg(num, name) == WorkspaceWord \o <<" ">> \o WorkspaceTarget(num, name)

\* The two launchers: the one that talks to the window manager through
\* package i3 and asks it for the next workspace number, and the one that
\* starts i3-msg and switches only when -workspace is given.
Variants == {"ipc", "msg"}

\* The values of the -workspace flag; 0 is its default.
Flags == {-1, 0, 1, 2}

\* The numbers of arguments on the command line.
NArgs == {0, 1, 2}

\* The patterns given on the command line.
RunPatterns ==
    { IdXY,
      <<"x", ".", "y", "/", ".", ".", ".">>,      \* x.y/...
      <<".", "/", "x", ".", "y">> }               \* ./x.y

\* The file systems and the workspaces a run starts from.
RunFiles ==
    { [d \in DirSet |-> NoFile],
      [d \in DirSet |-> IF d = DirXY THEN Manifest(TRUE, IdXY, TRUE, Go114) ELSE NoFile],
      [d \in DirSet |-> IF d = DirXYZ THEN Manifest(TRUE, IdXYZ, TRUE, Go114) ELSE NoFile],
      [d \in DirSet |-> IF d = DirXY THEN Manifest(TRUE, IdXY, TRUE, Go114)
                        ELSE IF d = DirXYZ THEN Manifest(TRUE, IdXYZ, TRUE, Go114)
                        ELSE NoFile] }

RunWorkspaces == { <<>>, <<<<"1">>>>, <<<<"1">>, <<"2">>>>, <<<<"w">>, <<"2">>>> }

RunInit ==
    /\ wsList \in RunWorkspaces
    /\ i3res = NoCall
    /\ mres = NoCall
    /\ gopath \in {[set |-> TRUE, list |-> <<GopathG>>], [set |-> FALSE, list |-> <<>>]}
    /\ fs \in RunFiles
    /\ res = NoCall
    /\ run = NoRun

\* The run after a step: the step is logged with its outcome.
After(step, ok, pc) ==
    [run EXCEPT !.pc = pc, !.log = Append(@, [step |-> step, ok |-> ok])]

\* The run ended by log.Fatal (status 1) or by a panic (status 2).
Fatal(step, status) ==
    [run EXCEPT !.pc = "exited", !.exit = status,
                !.log = Append(@, [step |-> step, ok |-> FALSE])]

\* main up to the check of the arguments: usage and status 2 unless there
\* is exactly one argument.
Launch(variant, nargs, pattern, flag) ==
    /\ run = NoRun
    /\ Len(wsList) < MaxWs
    /\ run' = [pc |-> IF nargs = 1 THEN "resolve" ELSE "exited",
               exit |-> IF nargs = 1 THEN 0 ELSE 2,
               variant |-> variant, pattern |-> pattern, flag |-> flag,
               num |-> flag, next |-> 0, mod |-> NoModule, log |-> <<>>,
               sent |-> <<>>, procs |-> <<>>, released |-> <<>>]
    /\ UNCHANGED <<i3vars, mres, rvars>>

\* main without the call of NextWorkspace: no switch unless -workspace is given.
AfterResolveFlagOnly(variant, flag) == IF flag > 0 THEN "switch" ELSE "terminal"

\* Where main goes after a step, from the workspace number it holds.
AfterResolve(variant, flag) ==
    IF variant = "ipc" /\ flag = 0 THEN "number"
    ELSE IF flag > 0 THEN "switch"
    ELSE "terminal"

\* mod, err := resolve(flag.Arg(0))
ResolveStep ==
    /\ run.pc = "resolve"
    /\ \E r \in {mainResolve(gopath, fs, run.pattern)} :
          run' = IF r.panic THEN Fatal("resolve", 2)
                 ELSE IF ~r.ok THEN Fatal("resolve", 1)
                 ELSE [After("resolve", TRUE, AfterResolve(run.variant, run.flag))
                          EXCEPT !.mod = r.mod]
    /\ UNCHANGED <<i3vars, mres, rvars>>

\* *workspace, err = i3.NextWorkspace()
NumberStep(ok) ==
    /\ run.pc = "number"
    /\ run' = IF ~ok THEN Fatal("number", 1)
              ELSE [After("number", TRUE,
                          IF NextWorkspace(wsList) > 0 THEN "switch" ELSE "terminal")
                       EXCEPT !.num = NextWorkspace(wsList), !.next = NextWorkspace(wsList)]
    /\ UNCHANGED <<i3vars, mres, rvars>>

\* The window manager switches to the workspace named by the target and
\* creates it when there is none of that name.
Switched(list, target) == IF InList(list, target) THEN list ELSE Append(list, target)

\* i3.Workspace(*workspace, mod.Name()) in the first launcher, where the
\* message is handed to invoke; switchToWorkspace in the second, where i3-msg
\* is started with the message and released.
SwitchStep(outcome) ==
    LET name == Name(run.mod.Path)
        msg  == WorkspaceMsg(run.num, name)
    IN  /\ run.pc = "switch"
        /\ outcome = "release" => run.variant = "msg"
        /\ run' =
             IF outcome = "ok"
             THEN [After("switch", TRUE, "terminal")
                      EXCEPT !.sent = Append(@, msg),
                             !.procs = IF run.variant = "msg" THEN Append(@, "i3-msg") ELSE @,
                             !.released = IF run.variant = "msg" THEN Append(@, "i3-msg")
                                          ELSE @]
             ELSE IF outcome = "release"
             THEN [Fatal("switch", 1) EXCEPT !.sent = Append(@, msg),
                                             !.procs = Append(@, "i3-msg")]
             ELSE IF run.variant = "ipc"
             THEN [Fatal("switch", 1) EXCEPT !.sent = Append(@, msg)]
             ELSE Fatal("switch", 1)
        /\ wsList' = IF outcome = "fail" THEN wsList
                     ELSE Switched(wsList, WorkspaceTarget(run.num, name))
        /\ UNCHANGED <<i3res, mres, rvars>>

\* main going on to the editor when the terminal could not be released.
TerminalStepUnreleased(outcome) ==
    /\ run.pc = "terminal"
    /\ run' = IF outcome = "ok"
              THEN [After("terminal", TRUE, "editor")
                       EXCEPT !.procs = Append(@, "terminal"),
                              !.released = Append(@, "terminal")]
              ELSE IF outcome = "release"
              THEN [After("terminal", FALSE, "editor")
                       EXCEPT !.procs = Append(@, "terminal")]
              ELSE Fatal("terminal", 1)
    /\ UNCHANGED <<i3vars, mres, rvars>>

\* startTerminal: spawn, then Release.
TerminalStep(outcome) ==
    /\ run.pc = "terminal"
    /\ run' = IF outcome = "ok"
              THEN [After("terminal", TRUE, "editor")
                       EXCEPT !.procs = Append(@, "terminal"),
                              !.released = Append(@, "terminal")]
              ELSE IF outcome = "release"
              THEN [Fatal("terminal", 1) EXCEPT !.procs = Append(@, "terminal")]
              ELSE Fatal("terminal", 1)
    /\ UNCHANGED <<i3vars, mres, rvars>>

\* startEditor: gofiles, spawn, then Release; main returns after it.
EditorStep(outcome) ==
    /\ run.pc = "editor"
    /\ run' = IF outcome = "ok"
              THEN [After("editor", TRUE, "exited")
                       EXCEPT !.procs = Append(@, "editor"),
                              !.released = Append(@, "editor")]
              ELSE IF outcome = "release"
              THEN [Fatal("editor", 1) EXCEPT !.procs = Append(@, "editor")]
              ELSE Fatal("editor", 1)
    /\ UNCHANGED <<i3vars, mres, rvars>>

\* The process is gone.
Exited ==
    /\ run # NoRun
    /\ run.pc = "exited"
    /\ run' = NoRun
    /\ UNCHANGED <<i3vars, mres, rvars>>

RunNext ==
    \/ \E variant \in Variants, nargs \in NArgs, pattern \in RunPatterns, flag \in Flags :
          Launch(variant, nargs, pattern, flag)
    \/ ResolveStep
    \/ \E ok \in BOOLEAN : NumberStep(ok)
    \/ \E outcome \in {"ok", "fail", "release"} : SwitchStep(outcome)
    \/ \E outcome \in {"ok", "fail", "release"} : TerminalStep(outcome)
    \/ \E outcome \in {"ok", "fail", "release"} : EditorStep(outcome)
    \/ Exited

SpecRun == RunInit /\ [][RunNext]_vars

(***************************************************************************)
(* Module.Name: applied to drawn paths, and by main to the module that     *)
(* resolve returned, for the label of the workspace.                       *)
(***************************************************************************)

MaxPathLen == 3     \* length of the paths given to Name

PathChars == {"x", ".", "/"}
Paths == StringsUpTo(PathChars, MaxPathLen)

\* The patterns main resolves before it asks for the name.
NamePatterns ==
    { IdXY,
      <<"x", ".", "y", "/", ".", ".", ".">>,      \* x.y/...
      <<".", ".", ".">> }                         \* ...

\* Name of a module with the path drawn.
NameCall(path) ==
    /\ mres' = [op |-> "Name", resolved |-> FALSE, path |-> path, name |-> Name(path)]
    /\ UNCHANGED <<i3vars, run, rvars>>

\* main: mod, err := resolve(pattern), then mod.Name() for the workspace.
ResolvedNameCall(pattern) ==
    /\ \E r \in {mainResolve(gopath, fs, pattern)} :
          /\ ~r.panic
          /\ r.ok
          /\ mres' = [op |-> "Name", resolved |-> TRUE, path |-> r.mod.Path,
                      name |-> Name(r.mod.Path)]
    /\ UNCHANGED <<i3vars, run, rvars>>

NameNext ==
    \/ \E d \in DirSet : \E c \in GoModsAt(d) : WriteGoMod(d, c)
    \/ \E path \in Paths : NameCall(path)
    \/ \E pattern \in NamePatterns : ResolvedNameCall(pattern)

SpecName == Init /\ [][NameNext]_vars

(***************************************************************************)
(* Properties of the resolution.                                           *)
(***************************************************************************)

\* The roots walked for a GOPATH, by position in the list.
RootAt(g, i) == SrcRoot(g.list[i])

\* The manifest files under the roots: position of the root, directory.
ManifestsUnder(g, f) ==
    {c \in (1..Len(g.list)) \X DirSet :
        HasPrefix(c[2], RootAt(g, c[1])) /\ f[c[2]].kind = "manifest"}

\* The identity a manifest declares, or falls back to under a root.
Identity(f, root, d) == IF f[d].hasModule THEN f[d].module ELSE Rel(root, d)

\* The directories whose manifest has the identity id under some root.
DirsWithIdentity(g, f, id) ==
    {c[2] : c \in {m \in ManifestsUnder(g, f) : Identity(f, RootAt(g, m[1]), m[2]) = id}}

\* Whether the manifest of d, found under root, loads in the call r.
LoadsIn(r, g, f, root, d) ==
    CASE r.op = "search.Resolve" -> ~searchLoad(f, root, d).err
      [] r.op = "mod.Resolve" -> ~modLoad(g, f, d, r.strict).err
      [] r.op = "main.resolve" ->
            /\ ~searchLoad(f, root, d).err
            /\ ~loadLoad(f, RawModule(searchLoad(f, root, d).mod, root)).err
            /\ loadLoad(f, RawModule(searchLoad(f, root, d).mod, root)).mod.Error = NoError

\* The identity of a loaded module in the call r.
LoadedPath(r, g, f, root, d) ==
    IF r.op = "mod.Resolve" THEN modLoad(g, f, d, r.strict).mod.Path
    ELSE searchLoad(f, root, d).mod.Path

\* The modules under the roots that load in the call r with an identity
\* matching its pattern, as directories.
MatchingModules(r, g, f) ==
    {c[2] : c \in {m \in ManifestsUnder(g, f) :
                      /\ LoadsIn(r, g, f, RootAt(g, m[1]), m[2])
                      /\ matchPattern(r.pattern, LoadedPath(r, g, f, RootAt(g, m[1]), m[2]))}}

MatchingIdentities(r, g, f) ==
    {LoadedPath(r, g, f, RootAt(g, c[1]), c[2]) :
        c \in {m \in ManifestsUnder(g, f) :
                  /\ LoadsIn(r, g, f, RootAt(g, m[1]), m[2])
                  /\ matchPattern(r.pattern, LoadedPath(r, g, f, RootAt(g, m[1]), m[2]))}}

\* A pattern that names a file system path, absolute or relative.
IsPathPattern(p) ==
    \/ p # <<>> /\ p[1] = "/"
    \/ p = <<".">>
    \/ p = <<".", ".">>
    \/ Len(p) >= 2 /\ SubSeq(p, 1, 2) = <<".", "/">>
    \/ Len(p) >= 3 /\ SubSeq(p, 1, 3) = <<".", ".", "/">>

\* A call of a Resolve with a module pattern and GOPATH set has returned.
Resolving == res # NoCall /\ gopath.set /\ ~IsPathPattern(res.pattern)

\* The errors of the three Resolve for no module and for several.
NotFoundFormat(op) ==
    IF op = "mod.Resolve" THEN "resolve: %q: no modules matched"
    ELSE "resolve %q: unable to resolve"

AmbiguousFormat(op) ==
    IF op = "mod.Resolve" THEN "resolve: %q: multiple modules matched"
    ELSE "resolve %q: unable to resolve"

IsNotFound(r) == ~r.ret.panic /\ ~r.ret.ok /\ r.ret.format = NotFoundFormat(r.op)

IsAmbiguous(r) == ~r.ret.panic /\ ~r.ret.ok /\ r.ret.format = AmbiguousFormat(r.op)

\* C1: Resolve succeeds if and only if exactly one module under the roots
\* loads with an identity matching the pattern; with none the error is the
\* one for no module, with two or more the one for several.
C1_ResolvesIffExactlyOne ==
    Resolving =>
        LET n == Cardinality(MatchingModules(res, gopath, fs))
        IN  /\ res.ret.ok <=> n = 1
            /\ n = 0 => IsNotFound(res)
            /\ n >= 2 => IsAmbiguous(res)

\* C2: a module a Resolve returns lies at Join(root, Path) for a root, and
\* its identity is the path of its directory relative to that root.
C2_Placement ==
    (res # NoCall /\ res.ret.ok) =>
        \E i \in 1..Len(gopath.list) :
            /\ Join(RootAt(gopath, i), res.ret.mod.Path) = res.ret.mod.Dir
            /\ res.ret.mod.Path = Rel(RootAt(gopath, i), res.ret.mod.Dir)

\* C3: Resolve of a literal pattern equal to the identity of a module that
\* loads returns that module when its manifest is the only one under the
\* roots with that identity, whatever the list of roots.
C3_UniqueLiteralResolves ==
    (Resolving /\ isLiteral(res.pattern)) =>
        \A d \in DirSet :
            (/\ DirsWithIdentity(gopath, fs, res.pattern) = {d}
             /\ d \in MatchingModules(res, gopath, fs))
            => (res.ret.ok /\ res.ret.mod.Dir = d /\ res.ret.mod.Path = res.pattern)

\* C4: Resolve returns the error for no module when no manifest file under
\* a root declares, or falls back to, an identity matching the pattern,
\* also when a directory named as the pattern has no go.mod file.
C4_NotFoundWithoutManifest ==
    (/\ Resolving
     /\ \A c \in ManifestsUnder(gopath, fs) :
            ~matchPattern(res.pattern, Identity(fs, RootAt(gopath, c[1]), c[2])))
    => IsNotFound(res)

\* C4, reached: the directory x.y is there without a manifest, another
\* module is, and Resolve of x.y has read a manifest and reports no module.
C4_Witness ==
    /\ res # NoCall /\ res.op = "search.Resolve" /\ res.pattern = IdXY
    /\ gopath = [set |-> TRUE, list |-> <<GopathG>>]
    /\ fs[DirXY] = NoFile
    /\ fs[DirXYZ] = Manifest(TRUE, IdXYZ, TRUE, Go114)
    /\ IsNotFound(res) /\ res.ret.reads = 1

\* C5 as amended: an absolute path, and a pattern equal to "." or ".." or
\* beginning with "./" or "../", is rejected: the result is a failure, no
\* root is walked and no manifest is read.
C5_PathPatternRejected ==
    (res # NoCall /\ IsPathPattern(res.pattern))
    => (~res.ret.ok /\ ~res.ret.panic /\ res.ret.walked = 0 /\ res.ret.reads = 0)

\* C5: every absolute path and every pattern beginning with "." is
\* rejected: the result is a failure, no root is walked, no manifest read.
C5_DotPatternRejected ==
    (res # NoCall /\ gopath.set /\ res.pattern[1] \in {"/", "."})
    => (~res.ret.ok /\ res.ret.walked = 0 /\ res.ret.reads = 0)

\* C5, reached: ../x.y is rejected by mod.Resolve while a module x.y is
\* there under the root.
C5_Witness ==
    /\ res # NoCall /\ res.op = "mod.Resolve"
    /\ res.pattern = <<".", ".", "/", "x", ".", "y">>
    /\ gopath = [set |-> TRUE, list |-> <<GopathG>>]
    /\ fs[DirXY] = Manifest(TRUE, IdXY, TRUE, Go114)
    /\ ~res.ret.ok /\ res.ret.walked = 0 /\ res.ret.reads = 0

ResolveOf(r, g, f) ==
    CASE r.op = "search.Resolve" -> searchResolve(g, f, r.pattern)
      [] r.op = "mod.Resolve" -> modResolve(g, f, r.pattern, r.strict)
      [] r.op = "main.resolve" -> mainResolve(g, f, r.pattern)

\* The go.mod of d is there and fails to load in the call r under every
\* root it lies under.
FailingCandidate(r, g, f, d) ==
    /\ f[d] # NoFile
    /\ \E i \in 1..Len(g.list) : HasPrefix(d, RootAt(g, i))
    /\ \A i \in 1..Len(g.list) :
          HasPrefix(d, RootAt(g, i)) =>
              \/ f[d].kind # "manifest"
              \/ ~LoadsIn(r, g, f, RootAt(g, i), d)

\* A sequence without its i-th element.
Without(q, i) == SubSeq(q, 1, i - 1) \o SubSeq(q, i + 1, Len(q))

\* What the caller of a Resolve sees of its result.
Outcome(ret) ==
    [panic |-> ret.panic, ok |-> ret.ok, mod |-> ret.mod, format |-> ret.format,
     args |-> ret.args]

\* C13: when a manifest found by the walk is withdrawn before it is loaded,
\* the pass does not crash and only that candidate is dropped: the result
\* is the one of a resolution of the files without it.
C13_OnlyCandidateDropped ==
    res # NoCall =>
        /\ ~res.ret.panic
        /\ Outcome(res.ret) =
               Outcome(IF res.op = "search.Resolve"
                       THEN searchResolve(gopath, fs, res.pattern)
                       ELSE mainResolve(gopath, fs, res.pattern))

\* The same of search.Resolve alone.
SearchCandidateDropped ==
    (res # NoCall /\ res.op = "search.Resolve") =>
        /\ ~res.ret.panic
        /\ Outcome(res.ret) = Outcome(searchResolve(gopath, fs, res.pattern))

C15_GoModIsManifestPath ==
    (res # NoCall /\ res.op \in {"search.Resolve", "main.resolve"} /\ res.ret.ok) =>
        /\ res.ret.mod.GoMod = Join(res.ret.mod.Dir, GoModName)
        /\ res.ret.mod.GoVersion =
               (IF fs[res.ret.mod.Dir].hasGo THEN fs[res.ret.mod.Dir].go
                ELSE DefaultGoVersion)

\* Whether a list of modules, each with its root, has the module of the
\* directory d found under root with the identity id.
Lists(found, root, d, id) ==
    \E k \in 1..Len(found) :
        /\ found[k].root = root
        /\ found[k].mod.Dir = d
        /\ found[k].mod.Path = id

DotInFirstSegment(id) ==
    \E i \in 1..Len(id) : id[i] = "." /\ \A j \in 1..(i - 1) : id[j] # "/"

\* C17: a module whose go.mod declares an identity that is empty, or
\* without a dot in its first segment, is never the module that a Resolve
\* returns, and is listed by ModulesAndErrors with its load error.
C17_InvalidIdentityNeverResolved ==
    res # NoCall =>
        /\ (res.ret.ok /\ fs[res.ret.mod.Dir].hasModule) =>
               DotInFirstSegment(fs[res.ret.mod.Dir].module)
        /\ (res.op = "main.resolve" /\ ~res.all.panic) =>
               \A k \in 1..Len(res.all.found) :
                   (/\ fs[res.all.found[k].mod.Dir].hasModule
                    /\ ~DotInFirstSegment(fs[res.all.found[k].mod.Dir].module))
                       => res.all.found[k].mod.Error # NoError

\* C18: every go.mod under a root whose identity matches the pattern and
\* whose load gives a load error (an invalid import path, a placement
\* violation) is in the list of ModulesAndErrors with its Error, and Modules
\* returns the entries of that list without Error, in the same order.
C18_FailedMatchesListed ==
    (Resolving /\ res.op = "main.resolve") =>
        /\ ~res.all.panic
        /\ \A c \in ManifestsUnder(gopath, fs) :
              (/\ matchPattern(res.pattern, Identity(fs, RootAt(gopath, c[1]), c[2]))
               /\ \/ Join(RootAt(gopath, c[1]), Identity(fs, RootAt(gopath, c[1]), c[2])) # c[2]
                  \/ fs[c[2]].hasModule /\ ~CheckImportPath(fs[c[2]].module))
                  => \E k \in 1..Len(res.all.found) :
                         /\ res.all.found[k].root = RootAt(gopath, c[1])
                         /\ res.all.found[k].mod.Dir = c[2]
                         /\ res.all.found[k].mod.Error # NoError
        /\ res.modules.found =
               SelectSeq(res.all.found, LAMBDA x : x.mod.Error = NoError)

\* C20: without GOPATH a Resolve of a module pattern panics: it returns
\* neither a module nor a not-found or ambiguity error, and walks no root
\* and reads no go.mod; a pattern that names a file system path is rejected
\* without GOPATH being read.
C20_GopathAbsent ==
    res # NoCall =>
        /\ (~gopath.set /\ ~IsPathPattern(res.pattern)) =>
               /\ res.ret.panic
               /\ ~res.ret.ok
               /\ ~IsNotFound(res)
               /\ ~IsAmbiguous(res)
               /\ res.ret.walked = 0
               /\ res.ret.reads = 0
        /\ IsPathPattern(res.pattern) =>
               /\ ~res.ret.env
               /\ ~res.ret.panic
               /\ ~res.ret.ok

\* C20: the resolve of package main has panicked on the pattern x.y without
\* GOPATH, the go.mod of x.y in place.
C20_Witness ==
    /\ res # NoCall
    /\ res.op = "main.resolve"
    /\ res.pattern = IdXY
    /\ ~gopath.set
    /\ fs[DirXY].kind = "manifest"
    /\ res.ret.panic

(***************************************************************************)
(* Properties of the launcher.                                             *)
(***************************************************************************)

\* The place of a step in the order resolve, workspace number, switch,
\* terminal, editor.
StepRank(step) ==
    CASE step = "resolve" -> 1
      [] step = "number" -> 2
      [] step = "switch" -> 3
      [] step = "terminal" -> 4
      [] step = "editor" -> 5

InSeq(q, x) == \E i \in 1..Len(q) : q[i] = x

LastElement(path) == Split(path)[Len(Split(path))]

IsShortName(path, name) ==
    IF \A i \in 2..Len(path) : path[i] # "/"
    THEN name = path
    ELSE \E k \in 2..Len(path) :
             /\ path[k] = "/"
             /\ name = SubSeq(path, k + 1, Len(path))
             /\ \A i \in 1..Len(name) : name[i] # "/"

NumbersInUse(list) == {Number(list[i]) : i \in 1..Len(list)} \ {0}

SmallestFree(list) ==
    CHOOSE n \in 1..(Len(list) + 1) :
        /\ n \notin NumbersInUse(list)
        /\ \A m \in 1..(n - 1) : m \in NumbersInUse(list)

\* C8: for every list of existing workspaces, in any order and with several
\* workspaces possibly sharing a number, NextWorkspace returns the smallest
\* positive integer that is not the number of an existing workspace.
C8_NextIsSmallestFree ==
    (i3res.op = "NextWorkspace" /\ ~i3res.err) => i3res.n = SmallestFree(wsList)

\* The workspaces of a list that have a number.
Numbered(list) == {i \in 1..Len(list) : Number(list[i]) # 0}

\* The numbered workspaces of a list come in strictly ascending order of
\* number, the workspaces without a number anywhere between them.
StrictlyAscending(list) ==
    \A i, j \in Numbered(list) : i < j => Number(list[i]) < Number(list[j])

\* C21: on a list in strictly ascending order of workspace number
\* NextWorkspace returns the smallest positive integer that is not the
\* number of a workspace of the list; on every list it returns at least 1
\* and at most one more than the count of the numbered workspaces.
C21_NextOnAscending ==
    (i3res.op = "NextWorkspace" /\ ~i3res.err) =>
        /\ StrictlyAscending(wsList) => i3res.n = SmallestFree(wsList)
        /\ 1 <= i3res.n
        /\ i3res.n <= Cardinality(Numbered(wsList)) + 1

\* C21: NextWorkspace has returned 2 for the ascending list 1, w, 3, which
\* has a workspace without a number and a free number below its greatest.
C21_Witness ==
    /\ i3res.op = "NextWorkspace"
    /\ ~i3res.err
    /\ wsList = << <<"1">>, <<"w">>, <<"3">> >>
    /\ i3res.n = 2

\* The number the name is read as when only "<n>" and "<n>:<rest>", with n a
\* string of decimal digits, are numbered names.
RefNumber(name) ==
    LET i   == IndexByte(name, ":")
        pre == IF i = 0 THEN name ELSE SubSeq(name, 1, i - 1)
    IN  IF pre # <<>> /\ \A k \in 1..Len(pre) : IsDigit(pre[k])
        THEN DigitsVal(pre)
        ELSE 0

\* C9: Number returns n for every name of the form "<n>" or "<n>:<rest>",
\* n a non-negative decimal integer, and 0 for every other name.
C9_NumberOfName ==
    i3res.op = "Number" => i3res.n = RefNumber(i3res.name)

\* C10: the number parsed from the target "<n>:<label>" that Workspace builds
\* is n, for every positive n and every non-empty label.
C10_RoundTrip ==
    i3res.op = "Format" => i3res.n = i3res.num

\* C10: a round trip of a number of two digits with a label that holds a
\* colon and a digit.
C10_Witness ==
    /\ i3res.op = "Format"
    /\ i3res.num = 12
    /\ i3res.name = <<":", "7">>
    /\ i3res.target = <<"1", "2", ":", ":", "7">>
    /\ i3res.n = 12

(***************************************************************************)
(* Properties of matchPattern.                                             *)
(***************************************************************************)

Wild == [wild |-> TRUE, c |-> ""]

\* The pattern read as literal characters and "..." markers.
RECURSIVE RefTokens(_)
RefTokens(pattern) ==
    IF pattern = <<>> THEN <<>>
    ELSE IF HasPrefix(pattern, <<".", ".", ".">>)
         THEN <<Wild>> \o RefTokens(SubSeq(pattern, 4, Len(pattern)))
         ELSE <<[wild |-> FALSE, c |-> Head(pattern)]>> \o RefTokens(Tail(pattern))

\* Whether the whole of s is the tokens, a marker standing for any string
\* of the characters wc.
RECURSIVE RefMatch(_, _, _)
RefMatch(tokens, s, wc) ==
    IF tokens = <<>> THEN s = <<>>
    ELSE IF Head(tokens).wild
         THEN \E k \in 0..Len(s) :
                 /\ \A i \in 1..k : s[i] \in wc
                 /\ RefMatch(Tail(tokens), SubSeq(s, k + 1, Len(s)), wc)
         ELSE s # <<>> /\ s[1] = Head(tokens).c /\ RefMatch(Tail(tokens), Tail(s), wc)

\* The pattern as the claim reads it: a trailing "/..." may also be absent.
RefPatternMatch(pattern, s, wc) ==
    \/ RefMatch(RefTokens(pattern), s, wc)
    \/ /\ HasSuffix(pattern, <<"/", ".", ".", ".">>)
       /\ RefMatch(RefTokens(SubSeq(pattern, 1, Len(pattern) - 4)), s, wc)

\* C6: matchPattern(p)(name) is true if and only if the entire name matches p
\* read literally, each "..." matching any possibly empty string that holds
\* no newline, and a trailing "/..." possibly absent.
C6_MatchesAsGlob ==
    mres.op = "matchPattern" =>
        mres.matched =
            {name \in MatchNames : RefPatternMatch(mres.pattern, name, IdChars \ {NL})}

\* C6 as stated: each "..." matches any possibly empty string.
C6_MatchesAnyString ==
    mres.op = "matchPattern" =>
        mres.matched = {name \in MatchNames : RefPatternMatch(mres.pattern, name, IdChars)}

\* C6: "x/..." compiled and applied: it matches "x" and "x/x" and not "xx".
C6_Witness ==
    /\ mres.op = "matchPattern"
    /\ mres.pattern = <<"x", "/", ".", ".", ".">>
    /\ <<"x">> \in mres.matched
    /\ <<"x", "/", "x">> \in mres.matched
    /\ <<"x", "x">> \notin mres.matched

====
